---- MODULE Spec2Model ----
(***************************************************************************)
(* Middleware dispatch of the node-api3-guided project: the server and     *)
(* router stacks registered in server.js / hubs-router.js, the handlers    *)
(* they register, and the walk express makes over them for each request.   *)
(***************************************************************************)
EXTENDS Integers, Sequences, FiniteSets, TLC

\* ------------------------------------------------------------------ bounds
\* hub ids a request's path can name: 1..MaxHubId
MaxHubId == 2
\* hubs that Hubs.add creates in one run, at most: a POST /api/hubs comes in
\* only while an id is left for it
MaxAdded == 2
\* requests in flight at once under SpecConc
MaxInFlight == 2
\* the clock's seconds that one request may see: 0..MaxSecond
MaxSecond == 3

\* ------------------------------------------------------- JavaScript values
\* undefined / absent
None == <<>>
Some(v) == <<v>>
\* the empty object {}
EmptyObj == <<>>
\* Object.keys(o)
Keys(o) == DOMAIN o
\* o.k, as an optional value
Prop(o, k) == IF k \in DOMAIN o THEN Some(o[k]) ELSE None
\* { ...a, ...b }
Spread(a, b) ==
  [k \in (DOMAIN a) \cup (DOMAIN b) |-> IF k \in DOMAIN b THEN b[k] ELSE a[k]]
\* new Error(msg): message is an own, non-enumerable property
NewError(msg) == [isError |-> TRUE, message |-> msg]
IsError(v) == "isError" \in DOMAIN v
\* what JSON.stringify keeps of one value: an Error instance keeps only its
\* enumerable own properties (not message), a plain object keeps every
\* property, a nested Error (under error / err) again only its enumerable ones
Enumerable(v) ==
  IF IsError(v) THEN [k \in (DOMAIN v) \ {"isError", "message"} |-> v[k]] ELSE v
ToJson(v) ==
  IF IsError(v) THEN Enumerable(v)
  ELSE [k \in DOMAIN v |->
          IF k \in {"error", "err"} THEN Enumerable(v[k]) ELSE v[k]]

Min(S) == CHOOSE x \in S : \A y \in S : x <= y
Max(S) == CHOOSE x \in S : \A y \in S : x >= y
Last(s) == s[Len(s)]

\* ------------------------------------------------------------------ inputs
Methods == {"GET", "POST", "PUT", "DELETE"}
HubIds == 1..MaxHubId
\* the ids the data store can hold: that of the seeded hub, those Hubs.add
\* gives out, and every id a path can name
LastStoreId == IF MaxHubId > 1 + MaxAdded THEN MaxHubId ELSE 1 + MaxAdded
StoreIds == 1..LastStoreId
\* request paths: "/", "/api/hubs", "/api/hubs/<id>", "/api/hubs/<id>/messages",
\* a path under the mount point that no route matches, and a path outside it
Paths ==
  {[at |-> a, id |-> 0] : a \in {"root", "hubs", "deep", "other"}}
    \cup {[at |-> a, id |-> i] : a \in {"hub", "msgs"}, i \in HubIds}
\* req.body as the handlers see it: undefined, {}, or an object with attributes
Bodies ==
  { None, Some(EmptyObj), Some([name |-> "b", hub_id |-> MaxHubId]) }
\* the x-name request header
XNames == {None, Some("Ann")}
\* new Date().getSeconds(), up to MaxSecond
Seconds == 0..MaxSecond

VARIABLES
  stack,    \* the registered handler entries, in registration order
  hubs,     \* data store: hub id -> the stored hub, or None
  nextId,   \* data store: the id the next added hub gets
  reqs      \* slot -> the request in flight there and the state of its walk

vars == <<stack, hubs, nextId, reqs>>

Slots == 1..MaxInFlight

\* ------------------------------------------------------------ data access
\* The model modules (hubs-model.js, messages-model.js) behind Hubs.* and
\* Messages.*.  Every operation returns [ok, val, hubs, nextId]: ok = FALSE is
\* a rejected promise carrying the error val, and leaves the store as it was.
DbError == [isError |-> TRUE, message |-> "db failure", code |-> "EIO"]

Rejected(h, n) == [ok |-> FALSE, val |-> DbError, hubs |-> h, nextId |-> n]
Resolved(v, h, n) == [ok |-> TRUE, val |-> v, hubs |-> h, nextId |-> n]

\* find(filter) -> list of Entity
find(h, n) ==
  Resolved([items |-> {h[i][1] : i \in {j \in DOMAIN h : h[j] # None}}], h, n)

\* findById(id) -> Entity or absent
findById(h, n, id) == Resolved(h[id], h, n)

\* add(payload) -> Entity
add(h, n, payload) ==
  LET hub == Spread(payload, [id |-> n])
  IN Resolved(hub, [h EXCEPT ![n] = Some(hub)], n + 1)

\* update(id, payload) -> Entity or absent
update(h, n, id, changes) ==
  IF h[id] = None THEN Resolved(None, h, n)
  ELSE LET hub == Spread(h[id][1], changes)
       IN Resolved(Some(hub), [h EXCEPT ![id] = Some(hub)], n)

\* remove(id) -> countRemoved
remove(h, n, id) ==
  Resolved(IF h[id] = None THEN 0 ELSE 1, [h EXCEPT ![id] = None], n)

\* findChildren(parentId) -> list of ChildEntity (the stored messages are not
\* part of the state: the list is named by the hub it belongs to)
findHubMessages(h, n, id) == Resolved([messagesOf |-> id], h, n)

\* addChild(payload) -> ChildEntity
addMessage(h, n, payload) == Resolved(Spread(payload, [id |-> 1]), h, n)

\* one data-access call, by name
Call(op, id, data) == [op |-> op, id |-> id, data |-> data]
DbExec(c, h, n) ==
  CASE c.op = "find" -> find(h, n)
    [] c.op = "findById" -> findById(h, n, c.id)
    [] c.op = "add" -> add(h, n, c.data)
    [] c.op = "update" -> update(h, n, c.id, c.data)
    [] c.op = "remove" -> remove(h, n, c.id)
    [] c.op = "findHubMessages" -> findHubMessages(h, n, c.id)
    [] c.op = "Messages.add" -> addMessage(h, n, c.data)

\* --------------------------------------------------------- handler outcomes
\* What one handler invocation does: at most one of next(), next(err) and a
\* response, and the request context (req.hub, req.name) it leaves.
CallNext(q) ==
  [sig |-> "next", hub |-> q.hub, name |-> q.name, err |-> None,
   status |-> 0, body |-> EmptyObj]
CallNextErr(q, e) == [CallNext(q) EXCEPT !.sig = "fail", !.err = Some(e)]
Respond(q, code, b) ==
  [CallNext(q) EXCEPT !.sig = "respond", !.status = code, !.body = b]

\* JavaScript truthiness of an optional number / an optional string
TruthyNum(m) == m # None /\ m[1] # 0
TruthyStr(m) == m # None /\ m[1] # ""
\* req.body spread into an object literal: { ...undefined } is {}
BodyObj(q) == IF q.body = None THEN EmptyObj ELSE q.body[1]

\* ------------------------------------------------- server.js: the handlers
\* express.json(), helmet(), morgan('dev'): third-party middleware, each
\* passes the request on
thirdParty(q) == CallNext(q)

methodLogger(q) == CallNext(q)

\* function addName(req, res, next): req.name = req.name || 'Sean'
addName(q) ==
  [CallNext(q) EXCEPT !.name = IF TruthyStr(q.name) THEN q.name ELSE Some("Sean")]

\* function addName(req, req, next): the second parameter shadows the first,
\* so the name is read from and stored on the response object, not on req
headerAddName(q) == CallNext(q)

\* (mutant) a lockout that lets the request through
lockoutContinues(q) == CallNext(q)

lockout(q) == Respond(q, 403, [message |-> "api in maintenance mode"])

\* n is new Date().getSeconds()
time(q, n) ==
  IF n % 3 = 0
  THEN Respond(q, 403, [message |-> "you shall not pass", seconds |-> n])
  ELSE CallNext(q)

\* server.get('/'): res.send of the welcome page, with req.name when set
getRoot(q) ==
  LET nameInsert == IF TruthyStr(q.name) THEN " " \o q.name[1] ELSE ""
  IN Respond(q, 200, [html |-> "<h2>Lambda Hubs API</h2><p>Welcome"
                               \o nameInsert \o " to the Lambda Hubs API</p>"])

deleteRoot(q) == Respond(q, 200, [text |-> "deleted"])

errorCode(e) ==
  IF TruthyNum(Prop(e, "status")) THEN e.status
  ELSE IF TruthyNum(Prop(e, "statusCode")) THEN e.statusCode
  ELSE 400

\* server.js errorHandler(error, req, res, next); invoked without an error
\* (which the walk never does) it throws on error.message, and an exception
\* thrown by a handler is passed on as next(exception)
errorHandler(q) ==
  IF q.err = None THEN CallNextErr(q, NewError("TypeError"))
  ELSE LET error == q.err[1]
       IN Respond(q, errorCode(error), ToJson(error))

\* ------------------------------------------ hubs-controller.js: the handlers
hubsLogger(q) == CallNext(q)

getHubsCall(q) == Call("find", 0, EmptyObj)
getHubs(q, out) ==
  IF out.ok THEN Respond(q, 200, out.val)
  ELSE CallNextErr(q, [error |-> out.val, message |-> "error retrieving hubs",
                       status |-> 500])

\* the route handler of the getHubById array: res.json(req.hub)
getHubById(q) == Respond(q, 200, IF q.hub = None THEN EmptyObj ELSE q.hub[1])

validateIdCall(q) == Call("findById", q.path.id, EmptyObj)
\* (mutant) the hub is attached and the request passed on without the test
\* that a hub was found
validateIdUnchecked(q, out) ==
  IF out.ok
  THEN [CallNext(q) EXCEPT !.hub = out.val]
  ELSE CallNextErr(q, [error |-> out.val, message |-> out.val.message,
                       status |-> 500])
\* (mutant) the request is passed on without req.hub = hub
validateIdForgetsHub(q, out) ==
  IF out.ok
  THEN IF out.val # None
       THEN CallNext(q)
       ELSE CallNextErr(q, [message |-> "invalid id", status |-> 405])
  ELSE CallNextErr(q, [error |-> out.val, message |-> out.val.message,
                       status |-> 500])
validateId(q, out) ==
  IF out.ok
  THEN IF out.val # None
       THEN [CallNext(q) EXCEPT !.hub = out.val]
       ELSE CallNextErr(q, [message |-> "invalid id", status |-> 405])
  ELSE CallNextErr(q, [error |-> out.val, message |-> out.val.message,
                       status |-> 500])

\* (mutant) only the presence of req.body is tested, not its attributes
requireBodyPresentOnly(q) ==
  IF q.body # None
  THEN CallNext(q)
  ELSE CallNextErr(q, [message |-> "body is required", status |-> 400])

requireBody(q) ==
  IF q.body # None /\ Cardinality(Keys(q.body[1])) > 0
  THEN CallNext(q)
  ELSE CallNextErr(q, [message |-> "body is required", status |-> 400])

\* ------------------------------------- api/hubs/hubs-router.js: the routes
apiPostHubCall(q) == Call("add", 0, BodyObj(q))
\* (mutant) the request body is sent back instead of the hub that add returned
apiPostHubEchoesBody(q, out) ==
  IF out.ok THEN Respond(q, 201, BodyObj(q))
  ELSE CallNextErr(q, [error |-> out.val, message |-> out.val.message,
                       status |-> 500])
apiPostHub(q, out) ==
  IF out.ok THEN Respond(q, 201, out.val)
  ELSE CallNextErr(q, [error |-> out.val, message |-> out.val.message,
                       status |-> 500])

apiDeleteHubCall(q) == Call("remove", q.hub[1].id, EmptyObj)
apiDeleteHub(q, out) ==
  IF out.ok
  THEN Respond(q, 200, [message |-> "hub #" \o ToString(q.hub[1].id)
                                      \o " removed"])
  ELSE CallNextErr(q, [error |-> out.val, message |-> "error removing the hub",
                       status |-> 500])

apiPutHubCall(q) == Call("update", q.hub[1].id, BodyObj(q))
\* res.status(200).json(hub): an absent hub is sent as it is
apiPutHub(q, out) ==
  IF out.ok
  THEN Respond(q, 200, IF out.val = None THEN [absent |-> TRUE] ELSE out.val[1])
  ELSE CallNextErr(q, [error |-> out.val, message |-> "error updating the hub",
                       status |-> 500])

apiGetMessagesCall(q) == Call("findHubMessages", q.hub[1].id, EmptyObj)
apiGetMessages(q, out) ==
  IF out.ok THEN Respond(q, 200, out.val)
  ELSE CallNextErr(q, [error |-> out.val, message |-> "error getting messages",
                       status |-> 500])

\* apiPostMessageCall with the spread reversed, { hub_id: req.params.id,
\* ...req.body }: a hub_id of the body would win
apiPostMessageCallBodyWins(q) ==
  Call("Messages.add", 0, Spread([hub_id |-> q.path.id], BodyObj(q)))
apiPostMessageCall(q) ==
  Call("Messages.add", 0, Spread(BodyObj(q), [hub_id |-> q.path.id]))
apiPostMessage(q, out) ==
  IF out.ok THEN Respond(q, 210, out.val)
  ELSE CallNextErr(q, [error |-> out.val, message |-> "error adding message",
                       status |-> 500])

\* ----------------------------------------- hubs/hubs-router.js: the routes
\* (the promise-chain handlers; the unnamed earlier router holds the same
\* ones, without requireBody and with its own errorHandler)
getHandlerCall(q) == Call("find", 0, EmptyObj)
getHandler(q, out) ==
  IF out.ok THEN Respond(q, 200, out.val)
  ELSE Respond(q, 500, [message |-> "Error retrieving the hubs"])

\* router.get('/:id', validateId, (req, res) => res.status(200).json(req.hub))
hubsGetHub(q) == Respond(q, 200, IF q.hub = None THEN EmptyObj ELSE q.hub[1])

hubsPostHubCall(q) == Call("add", 0, BodyObj(q))
hubsPostHub(q, out) ==
  IF out.ok THEN Respond(q, 201, out.val)
  ELSE Respond(q, 500, [message |-> "Error adding the hub"])

hubsDeleteHubCall(q) == Call("remove", q.path.id, EmptyObj)
hubsDeleteHub(q, out) ==
  IF out.ok
  THEN IF out.val > 0
       THEN Respond(q, 200, [message |-> "The hub has been nuked"])
       ELSE Respond(q, 404, [message |-> "The hub could not be found"])
  ELSE Respond(q, 500, ToJson([message |-> "Error removing the hub",
                               error |-> out.val]))

hubsPutHubCall(q) == Call("update", q.path.id, BodyObj(q))
hubsPutHub(q, out) ==
  IF out.ok
  THEN IF out.val # None
       THEN Respond(q, 200, out.val[1])
       ELSE Respond(q, 404, [message |-> "The hub could not be found"])
  ELSE Respond(q, 500, ToJson([message |-> "Error updating the hub",
                               error |-> out.val]))

hubsGetMessagesCall(q) == Call("findHubMessages", q.path.id, EmptyObj)
hubsGetMessages(q, out) ==
  IF out.ok THEN Respond(q, 200, out.val)
  ELSE Respond(q, 500, [message |-> "Error getting the messages for the hub"])

hubsPostMessageCall(q) ==
  Call("Messages.add", 0, Spread(BodyObj(q), [hub_id |-> q.path.id]))
hubsPostMessage(q, out) ==
  IF out.ok THEN Respond(q, 210, out.val)
  ELSE Respond(q, 500, [message |-> "Error getting the messages for the hub"])

\* (mutant) the 404 of the commented-out line is written and next(err) called
\* as well
hubsValidateIdAnswersAndFails(q, out) ==
  IF out.ok
  THEN IF out.val # None
       THEN [CallNext(q) EXCEPT !.hub = out.val]
       ELSE [Respond(q, 404, [message |-> "does not exist"])
               EXCEPT !.sig = "fail", !.err = Some(NewError("does not exist"))]
  ELSE Respond(q, 500, ToJson([message |-> "exception", err |-> out.val]))

hubsValidateIdCall(q) == Call("findById", q.path.id, EmptyObj)
hubsValidateId(q, out) ==
  IF out.ok
  THEN IF out.val # None
       THEN [CallNext(q) EXCEPT !.hub = out.val]
       ELSE CallNextErr(q, NewError("does not exist"))
  ELSE Respond(q, 500, ToJson([message |-> "exception", err |-> out.val]))

\* (mutant) the function body left empty: neither a response nor next()
hubsRequireBodyDoesNeither(q) == [CallNext(q) EXCEPT !.sig = "none"]

\* (mutant) the response is written and next() called all the same
hubsRequireBodyRespondsAndContinues(q) ==
  IF q.body = None \/ FALSE
  THEN [Respond(q, 400, [message |-> "Please include request body"])
          EXCEPT !.sig = "next"]
  ELSE CallNext(q)

\* !body || body === {} : an object literal is identical to no other object,
\* so the test is that of !body alone
hubsRequireBody(q) ==
  IF q.body = None \/ FALSE
  THEN Respond(q, 400, [message |-> "Please include request body"])
  ELSE CallNext(q)

\* the router's own errorHandler(error, req, res, next)
routerErrorHandler(q) ==
  IF q.err = None THEN CallNextErr(q, NewError("TypeError"))
  ELSE LET error == q.err[1]
       IN Respond(q, 400, IF "message" \in DOMAIN error
                          THEN [message |-> error.message] ELSE EmptyObj)

\* ------------------------------------------------------ the handler stacks
\* One registered entry: the handler, whether it takes four parameters (an
\* error handler), whether it sits on the server or in the hubs router, and
\* its method and path ("*": registered with use(), every method and path).
Layer(h, isErr, scope, method, pat) ==
  [h |-> h, isErr |-> isErr, scope |-> scope, method |-> method, pat |-> pat]
Use(h) == Layer(h, FALSE, "app", "*", "*")
UseErr(h) == Layer(h, TRUE, "app", "*", "*")
RouterUse(h) == Layer(h, FALSE, "router", "*", "*")
RouterUseErr(h) == Layer(h, TRUE, "router", "*", "*")
\* METHOD(path, h1, ..., hn), or with an array of handlers: one entry each,
\* consecutively, at the same method and path
Route(scope, method, pat, hs) ==
  [i \in 1..Len(hs) |-> Layer(hs[i], FALSE, scope, method, pat)]

\* (mutant) requireBody given before validateId on PUT /:id and on
\* POST /:id/messages
apiRouterBodyFirst ==
  <<RouterUse("hubsLogger")>>
    \o Route("router", "GET", "hubs", <<"getHubs">>)
    \o Route("router", "GET", "hub", <<"validateId", "validateId", "getHubById">>)
    \o Route("router", "POST", "hubs", <<"requireBody", "apiPostHub">>)
    \o Route("router", "DELETE", "hub", <<"validateId", "apiDeleteHub">>)
    \o Route("router", "PUT", "hub", <<"requireBody", "validateId", "apiPutHub">>)
    \o Route("router", "GET", "msgs", <<"validateId", "apiGetMessages">>)
    \o Route("router", "POST", "msgs",
             <<"requireBody", "validateId", "apiPostMessage">>)

\* api/hubs/hubs-router.js
apiRouter ==
  <<RouterUse("hubsLogger")>>
    \o Route("router", "GET", "hubs", <<"getHubs">>)
    \o Route("router", "GET", "hub", <<"validateId", "validateId", "getHubById">>)
    \o Route("router", "POST", "hubs", <<"requireBody", "apiPostHub">>)
    \o Route("router", "DELETE", "hub", <<"validateId", "apiDeleteHub">>)
    \o Route("router", "PUT", "hub", <<"validateId", "requireBody", "apiPutHub">>)
    \o Route("router", "GET", "msgs", <<"validateId", "apiGetMessages">>)
    \o Route("router", "POST", "msgs",
             <<"validateId", "requireBody", "apiPostMessage">>)

\* hubs/hubs-router.js
hubsRouter ==
  <<RouterUse("hubsLogger")>>
    \o Route("router", "GET", "hubs", <<"getHandler">>)
    \o Route("router", "GET", "hub", <<"hubsValidateId", "hubsGetHub">>)
    \o Route("router", "POST", "hubs", <<"hubsRequireBody", "hubsPostHub">>)
    \o Route("router", "DELETE", "hub", <<"hubsValidateId", "hubsDeleteHub">>)
    \o Route("router", "PUT", "hub",
             <<"hubsValidateId", "hubsRequireBody", "hubsPutHub">>)
    \o Route("router", "GET", "msgs", <<"hubsValidateId", "hubsGetMessages">>)
    \o Route("router", "POST", "msgs",
             <<"hubsValidateId", "hubsRequireBody", "hubsPostMessage">>)

\* the earlier hubs router: no requireBody on any route, errorHandler last
earlyRouter ==
  <<RouterUse("hubsLogger")>>
    \o Route("router", "GET", "hubs", <<"getHandler">>)
    \o Route("router", "GET", "hub", <<"hubsValidateId", "hubsGetHub">>)
    \o Route("router", "POST", "hubs", <<"hubsPostHub">>)
    \o Route("router", "DELETE", "hub", <<"hubsValidateId", "hubsDeleteHub">>)
    \o Route("router", "PUT", "hub", <<"hubsValidateId", "hubsPutHub">>)
    \o Route("router", "GET", "msgs", <<"hubsValidateId", "hubsGetMessages">>)
    \o Route("router", "POST", "msgs", <<"hubsValidateId", "hubsPostMessage">>)
    \o <<RouterUseErr("routerErrorHandler")>>

\* (mutant) the time gate registered before the router instead of after it
firstServerGateFirst(router) ==
  <<Use("json"), Use("helmet"), Use("methodLogger"), Use("headerAddName"),
    Use("time")>>
    \o router
    \o <<Use("lockout")>>
    \o Route("app", "GET", "root", <<"getRoot">>)
    \o Route("app", "DELETE", "root", <<"deleteRoot">>)

\* server.js, first variant: the gates time and lockout after the router
firstServer(router) ==
  <<Use("json"), Use("helmet"), Use("methodLogger"), Use("headerAddName")>>
    \o router
    \o <<Use("time"), Use("lockout")>>
    \o Route("app", "GET", "root", <<"getRoot">>)
    \o Route("app", "DELETE", "root", <<"deleteRoot">>)

\* server.js, second variant: the router mounted before methodLogger
secondServer(router) ==
  <<Use("json")>>
    \o router
    \o <<Use("helmet"), Use("methodLogger")>>
    \o Route("app", "GET", "root", <<"getRoot">>)
    \o Route("app", "DELETE", "root", <<"deleteRoot">>)

\* server.js, annotated: errorHandler registered last
annotatedServer(router) ==
  <<Use("json"), Use("helmet"), Use("morgan"), Use("methodLogger"),
    Use("addName")>>
    \o router
    \o Route("app", "GET", "root", <<"getRoot">>)
    \o <<UseErr("errorHandler")>>

\* the registration the notes warn against: errorHandler use()d at the top
\* of the file, before every other middleware
misregisteredServer(router) ==
  <<UseErr("errorHandler"), Use("json"), Use("helmet"), Use("morgan"),
    Use("methodLogger"), Use("addName")>>
    \o router
    \o Route("app", "GET", "root", <<"getRoot">>)

Stacks ==
  { annotatedServer(apiRouter), annotatedServer(hubsRouter),
    firstServer(hubsRouter), secondServer(earlyRouter),
    misregisteredServer(hubsRouter) }

\* ---------------------------------------------------------------- the walk
\* paths under the router's mount point /api/hubs
UnderMount(path) == path.at \in {"hubs", "hub", "msgs", "deep"}

\* (mutant) the router's entries take part in every request, whatever its path
MatchesOffMount(e, q) ==
  e.pat # "*" => (e.pat = q.path.at /\ e.method = q.method)

\* does the entry's method and path match the request's
Matches(e, q) ==
  /\ e.scope = "router" => UnderMount(q.path)
  /\ e.pat # "*" => (e.pat = q.path.at /\ e.method = q.method)

\* (mutant) next(err) passes control to the next middleware of any kind
EligibleAnyAfterError(s, q, j) ==
  /\ Matches(s[j], q)
  /\ q.err = None => ~s[j].isErr

\* (mutant) next() passes control to the next matching entry of any kind
EligibleAnyInNormalMode(s, q, j) ==
  /\ Matches(s[j], q)
  /\ q.err # None =>
       /\ s[j].isErr
       /\ s[j].scope = "router" =>
            (q.cursor > 0 /\ s[q.cursor].scope = "router")

\* next() looks at normal handlers only, next(err) at error handlers only;
\* the router as a whole is a three-parameter middleware, so its error
\* handlers are looked at only for an error raised inside the router
Eligible(s, q, j) ==
  /\ Matches(s[j], q)
  /\ IF q.err = None
     THEN ~s[j].isErr
     ELSE /\ s[j].isErr
          /\ s[j].scope = "router" =>
               (q.cursor > 0 /\ s[q.cursor].scope = "router")

\* (mutant) an error for which no error handler is left after the stack
\* pointer wraps around to the error handlers before it
NextLayerWrapsAround(s, q) ==
  LET later == {j \in (q.cursor + 1)..Len(s) : Eligible(s, q, j)}
      before == {j \in 1..q.cursor : s[j].isErr /\ Matches(s[j], q)}
  IN IF later # {} THEN Min(later)
     ELSE IF q.err # None /\ before # {} THEN Min(before)
     ELSE 0

\* (mutant) next(err) passes control to the first error handler of the stack
NextLayerFirstErrorHandler(s, q) ==
  LET later == {j \in (q.cursor + 1)..Len(s) : Eligible(s, q, j)}
      all == {j \in 1..Len(s) : s[j].isErr /\ Matches(s[j], q)}
  IN IF q.err = None
     THEN IF later = {} THEN 0 ELSE Min(later)
     ELSE IF all = {} THEN 0 ELSE Min(all)

\* the next entry to invoke, strictly after the stack pointer; 0 when none
NextLayer(s, q) ==
  LET later == {j \in (q.cursor + 1)..Len(s) : Eligible(s, q, j)}
  IN IF later = {} THEN 0 ELSE Min(later)

\* The handlers given in one METHOD(path, ...) call, an array among them or
\* not, make up one route with a stack of its own.  The entries of the route
\* that the entry j belongs to: no two consecutive registrations are for the
\* same method and path, so a route is a run of entries with the same ones.
RouteOf(s, j) ==
  IF j = 0 \/ s[j].pat = "*" THEN {j}
  ELSE {k \in DOMAIN s :
          \A m \in (IF k < j THEN k..j ELSE j..k) :
            /\ s[m].scope = s[j].scope
            /\ s[m].method = s[j].method
            /\ s[m].pat = s[j].pat}

\* the walk over routes as routes: inside a route, next() goes to the next
\* handler of the route without matching again and next(err) to its next
\* error handler; with none left the route is left, and the walk goes on
\* behind the route's last entry
NextLayerComposite(s, q) ==
  LET route == RouteOf(s, q.cursor)
      inRoute == {k \in route : k > q.cursor /\ s[k].isErr = (q.err # None)}
      later == {j \in (Max(route) + 1)..Len(s) : Eligible(s, q, j)}
  IN IF inRoute # {} THEN Min(inRoute)
     ELSE IF later = {} THEN 0 ELSE Min(later)

\* the default expressjs handler at the very end of the stack: 404 when the
\* stack is exhausted without an error, else the error's status or statusCode
\* when it is an HTTP error status, else 500
finalStatus(q) ==
  IF q.err = None THEN 404
  ELSE LET e == q.err[1]
           st == Prop(e, "status")
           sc == Prop(e, "statusCode")
       IN IF st # None /\ st[1] >= 400 /\ st[1] < 600 THEN st[1]
          ELSE IF sc # None /\ sc[1] >= 400 /\ sc[1] < 600 THEN sc[1]
          ELSE 500

\* handlers that start with a data-access call, and the call each makes
Awaiting ==
  { "getHubs", "validateId", "apiPostHub", "apiDeleteHub", "apiPutHub",
    "apiGetMessages", "apiPostMessage", "getHandler", "hubsValidateId",
    "hubsPostHub", "hubsDeleteHub", "hubsPutHub", "hubsGetMessages",
    "hubsPostMessage" }

CallOf(h, q) ==
  CASE h = "getHubs" -> getHubsCall(q)
    [] h = "validateId" -> validateIdCall(q)
    [] h = "apiPostHub" -> apiPostHubCall(q)
    [] h = "apiDeleteHub" -> apiDeleteHubCall(q)
    [] h = "apiPutHub" -> apiPutHubCall(q)
    [] h = "apiGetMessages" -> apiGetMessagesCall(q)
    [] h = "apiPostMessage" -> apiPostMessageCall(q)
    [] h = "getHandler" -> getHandlerCall(q)
    [] h = "hubsValidateId" -> hubsValidateIdCall(q)
    [] h = "hubsPostHub" -> hubsPostHubCall(q)
    [] h = "hubsDeleteHub" -> hubsDeleteHubCall(q)
    [] h = "hubsPutHub" -> hubsPutHubCall(q)
    [] h = "hubsGetMessages" -> hubsGetMessagesCall(q)
    [] h = "hubsPostMessage" -> hubsPostMessageCall(q)

\* req.hub.id, evaluated inside the try block before the data-access call is
\* made: with no req.hub it throws, no call is made and the catch block runs
Throws(h, q) ==
  h \in {"apiDeleteHub", "apiPutHub", "apiGetMessages"} /\ q.hub = None
Thrown ==
  [ok |-> FALSE, val |-> NewError("Cannot read property 'id' of undefined")]

\* the handler h run on request q: out is what its data-access call returned
\* (for the handlers that make one), n the clock's seconds (for time)
Handle(h, q, out, n) ==
  CASE h \in {"json", "helmet", "morgan"} -> thirdParty(q)
    [] h = "methodLogger" -> methodLogger(q)
    [] h = "addName" -> addName(q)
    [] h = "headerAddName" -> headerAddName(q)
    [] h = "lockout" -> lockout(q)
    [] h = "time" -> time(q, n)
    [] h = "getRoot" -> getRoot(q)
    [] h = "deleteRoot" -> deleteRoot(q)
    [] h = "errorHandler" -> errorHandler(q)
    [] h = "hubsLogger" -> hubsLogger(q)
    [] h = "getHubs" -> getHubs(q, out)
    [] h = "getHubById" -> getHubById(q)
    [] h = "validateId" -> validateId(q, out)
    [] h = "requireBody" -> requireBody(q)
    [] h = "apiPostHub" -> apiPostHub(q, out)
    [] h = "apiDeleteHub" -> apiDeleteHub(q, out)
    [] h = "apiPutHub" -> apiPutHub(q, out)
    [] h = "apiGetMessages" -> apiGetMessages(q, out)
    [] h = "apiPostMessage" -> apiPostMessage(q, out)
    [] h = "getHandler" -> getHandler(q, out)
    [] h = "hubsGetHub" -> hubsGetHub(q)
    [] h = "hubsPostHub" -> hubsPostHub(q, out)
    [] h = "hubsDeleteHub" -> hubsDeleteHub(q, out)
    [] h = "hubsPutHub" -> hubsPutHub(q, out)
    [] h = "hubsGetMessages" -> hubsGetMessages(q, out)
    [] h = "hubsPostMessage" -> hubsPostMessage(q, out)
    [] h = "hubsValidateId" -> hubsValidateId(q, out)
    [] h = "hubsRequireBody" -> hubsRequireBody(q)
    [] h = "routerErrorHandler" -> routerErrorHandler(q)

\* (mutant) the walk goes on to the next matching entry after a response
SignalledKeepsWalking(q, eff) ==
  LET base == [q EXCEPT !.hub = eff.hub, !.name = eff.name,
                        !.signals = Append(q.signals, eff.sig)]
  IN CASE eff.sig = "next" -> [base EXCEPT !.st = "walking", !.err = None]
       [] eff.sig = "fail" -> [base EXCEPT !.st = "walking", !.err = eff.err]
       [] eff.sig = "respond" ->
            [base EXCEPT !.st = "walking", !.end = "responded",
                         !.res = Append(q.res, [status |-> eff.status,
                                                body |-> eff.body])]

\* the walk after the invoked handler has signalled or responded: next()
\* goes on in normal mode, next(err) goes on seeking an error handler with
\* err as the current error, a response ends the walk; a response that the
\* handler wrote (a status set) is on record whatever it signalled; after a
\* handler that returned without doing either the walk is left where it is,
\* and the request without an answer
Signalled(q, eff) ==
  LET base == [q EXCEPT !.hub = eff.hub, !.name = eff.name,
                        !.signals = Append(q.signals, eff.sig),
                        !.res = IF eff.status # 0
                                THEN Append(q.res, [status |-> eff.status,
                                                    body |-> eff.body])
                                ELSE q.res]
  IN CASE eff.sig = "next" -> [base EXCEPT !.st = "walking", !.err = None]
       [] eff.sig = "fail" -> [base EXCEPT !.st = "walking", !.err = eff.err]
       [] eff.sig = "respond" -> [base EXCEPT !.st = "done", !.end = "responded"]
       [] eff.sig = "none" -> [base EXCEPT !.st = "hung"]

\* ------------------------------------------------------------ the requests
\* One slot holds one request and its walk:
\*   st       "idle" (no request), "walking" (between two handlers),
\*            "awaiting" (inside a handler, at its data-access call), "done",
\*            "hung" (the handler invoked last returned without a signal)
\*   method, path, body, xname     the request as it came in
\*   hub, name                     req.hub and req.name
\*   cursor                        the stack pointer: the entry invoked last
\*   err                           the current error, None in normal mode
\*   invoked, signals              the entries invoked so far, and what each
\*                                 did: "next", "fail" or "respond"
\*   calls, rets                   the data-access calls made so far and what
\*                                 each returned
\*   res                           the responses written
\*   end                           "responded" (by a handler), "notFound" or
\*                                 "unhandled" (by the default handler)
NoRequest ==
  [st |-> "idle", method |-> "GET", path |-> [at |-> "root", id |-> 0],
   body |-> None, xname |-> None, hub |-> None, name |-> None,
   cursor |-> 0, err |-> None, invoked |-> <<>>, signals |-> <<>>,
   calls |-> <<>>, rets |-> <<>>, res |-> <<>>, end |-> "none"]

NewRequest(m, p, b, x) ==
  [NoRequest EXCEPT !.st = "walking", !.method = m, !.path = p, !.body = b,
                    !.xname = x]

NoOut == [ok |-> TRUE, val |-> None]

Init ==
  /\ stack \in Stacks
  /\ hubs = [i \in StoreIds |-> IF i = 1 THEN Some([id |-> 1, name |-> "a"])
                              ELSE None]
  /\ nextId = 2
  /\ reqs = [r \in Slots |-> NoRequest]

\* the requests in flight that may still call Hubs.add
AddsAhead ==
  {s \in Slots : /\ reqs[s].st \in {"walking", "awaiting"}
                 /\ reqs[s].method = "POST" /\ reqs[s].path.at = "hubs"}
\* a POST /api/hubs can come in: an id is left for the hub it may add, after
\* those of the requests in flight (the bound on the store's id counter)
IdLeft(m, p) ==
  (m = "POST" /\ p.at = "hubs") =>
    nextId + Cardinality(AddsAhead) <= LastStoreId

\* a request comes in on a free slot
Arrive(r) ==
  /\ reqs[r].st = "idle"
  /\ \E m \in Methods, p \in Paths, b \in Bodies, x \in XNames :
       /\ IdLeft(m, p)
       /\ reqs' = [reqs EXCEPT ![r] = NewRequest(m, p, b, x)]
  /\ UNCHANGED <<stack, hubs, nextId>>

\* (mutant) the walk goes on to the next matching entry while the handler
\* invoked last is still at its data-access call and has not signalled
DispatchProceedsUnsignalled(r) ==
  LET q == reqs[r]
      j == NextLayer(stack, q)
  IN /\ q.st \in {"walking", "awaiting"}
     /\ IF j = 0
        THEN reqs' = [reqs EXCEPT ![r] =
               [q EXCEPT !.st = "done",
                         !.end = IF q.err = None THEN "notFound" ELSE "unhandled",
                         !.res = Append(q.res, [status |-> finalStatus(q),
                                                body |-> [page |-> "default"]])]]
        ELSE LET h == stack[j].h
                 q1 == [q EXCEPT !.cursor = j, !.invoked = Append(q.invoked, j)]
             IN IF h \in Awaiting /\ ~Throws(h, q1)
                THEN reqs' = [reqs EXCEPT ![r] =
                       [q1 EXCEPT !.st = "awaiting",
                                  !.calls = Append(q.calls, CallOf(h, q1))]]
                ELSE \E n \in (IF h = "time" THEN Seconds ELSE {0}) :
                       reqs' = [reqs EXCEPT ![r] =
                         Signalled(q1, Handle(h, q1, IF h \in Awaiting
                                                     THEN Thrown ELSE NoOut, n))]
     /\ UNCHANGED <<stack, hubs, nextId>>

\* (mutant) the walk takes the entries off the front of the registered list
\* as it passes them (stack.shift()), up to the one it invokes
DispatchShiftsStack(r) ==
  LET q == reqs[r]
      j == NextLayer(stack, q)
  IN /\ q.st = "walking"
     /\ IF j = 0
        THEN reqs' = [reqs EXCEPT ![r] =
               [q EXCEPT !.st = "done",
                         !.end = IF q.err = None THEN "notFound" ELSE "unhandled",
                         !.res = Append(q.res, [status |-> finalStatus(q),
                                                body |-> [page |-> "default"]])]]
        ELSE LET h == stack[j].h
                 q1 == [q EXCEPT !.cursor = j, !.invoked = Append(q.invoked, j)]
             IN IF h \in Awaiting /\ ~Throws(h, q1)
                THEN reqs' = [reqs EXCEPT ![r] =
                       [q1 EXCEPT !.st = "awaiting",
                                  !.calls = Append(q.calls, CallOf(h, q1))]]
                ELSE \E n \in (IF h = "time" THEN Seconds ELSE {0}) :
                       reqs' = [reqs EXCEPT ![r] =
                         Signalled(q1, Handle(h, q1, IF h \in Awaiting
                                                     THEN Thrown ELSE NoOut, n))]
     /\ stack' = IF j = 0 THEN stack ELSE SubSeq(stack, j + 1, Len(stack))
     /\ UNCHANGED <<hubs, nextId>>

\* the walk moves to the next matching entry and invokes its handler, up to
\* the handler's signal or response, or up to its data-access call; with no
\* entry left the default handler answers
Dispatch(r) ==
  LET q == reqs[r]
      j == NextLayer(stack, q)
  IN /\ q.st = "walking"
     /\ IF j = 0
        THEN reqs' = [reqs EXCEPT ![r] =
               [q EXCEPT !.st = "done",
                         !.end = IF q.err = None THEN "notFound" ELSE "unhandled",
                         !.res = Append(q.res, [status |-> finalStatus(q),
                                                body |-> [page |-> "default"]])]]
        ELSE LET h == stack[j].h
                 q1 == [q EXCEPT !.cursor = j, !.invoked = Append(q.invoked, j)]
             IN IF h \in Awaiting /\ ~Throws(h, q1)
                THEN reqs' = [reqs EXCEPT ![r] =
                       [q1 EXCEPT !.st = "awaiting",
                                  !.calls = Append(q.calls, CallOf(h, q1))]]
                ELSE \E n \in (IF h = "time" THEN Seconds ELSE {0}) :
                       reqs' = [reqs EXCEPT ![r] =
                         Signalled(q1, Handle(h, q1, IF h \in Awaiting
                                                     THEN Thrown ELSE NoOut, n))]
     /\ UNCHANGED <<stack, hubs, nextId>>

\* (mutant) the hub that validateId found is kept in a variable of the module
\* instead of on req, so every request in flight sees the hub found last
SettleSharesHub(r) ==
  LET q == reqs[r]
      c == Last(q.calls)
  IN /\ q.st = "awaiting"
     /\ \E ok \in BOOLEAN :
          /\ LET out == IF ok THEN DbExec(c, hubs, nextId)
                        ELSE Rejected(hubs, nextId)
                 eff == Handle(stack[q.cursor].h, q, out, 0)
             IN /\ hubs' = out.hubs
                /\ nextId' = out.nextId
                /\ reqs' = [s \in Slots |->
                     IF s = r
                     THEN Signalled([q EXCEPT !.rets = Append(q.rets,
                                       [ok |-> out.ok, val |-> out.val])], eff)
                     ELSE IF reqs[s].st = "idle" THEN reqs[s]
                     ELSE [reqs[s] EXCEPT !.hub = eff.hub]]
     /\ UNCHANGED stack

\* the awaited data-access call returns or fails, and the handler goes on to
\* its signal or response
Settle(r) ==
  LET q == reqs[r]
      c == Last(q.calls)
  IN /\ q.st = "awaiting"
     /\ \E ok \in BOOLEAN :
          /\ LET out == IF ok THEN DbExec(c, hubs, nextId)
                        ELSE Rejected(hubs, nextId)
             IN /\ hubs' = out.hubs
                /\ nextId' = out.nextId
                /\ reqs' = [reqs EXCEPT ![r] =
                     Signalled([q EXCEPT !.rets = Append(q.rets,
                                  [ok |-> out.ok, val |-> out.val])],
                               Handle(stack[q.cursor].h, q, out, 0))]
     /\ UNCHANGED stack

\* the request is over: its context is discarded and its slot is free again
Finish(r) ==
  /\ reqs[r].st = "done"
  /\ reqs' = [reqs EXCEPT ![r] = NoRequest]
  /\ UNCHANGED <<stack, hubs, nextId>>

Next == \E r \in {1} : Arrive(r) \/ Dispatch(r) \/ Settle(r) \/ Finish(r)

Spec == Init /\ [][Next]_vars

\* ---------------------------------------------------- one request, to its end
\* One request comes in; its walk goes on whenever a handler has signalled,
\* and every data-access call eventually returns or fails.
NextOnce == Arrive(1) \/ Dispatch(1) \/ Settle(1)

SpecFair ==
  Init /\ [][NextOnce]_vars /\ WF_vars(Dispatch(1)) /\ WF_vars(Settle(1))

\* ------------------------------------------------- requests in flight at once
\* Up to MaxInFlight requests are in flight, each on its own slot, and the
\* steps of their walks (a handler up to its data-access call, the return of
\* that call) interleave in any order.  To keep the interleavings countable
\* the requests are those for the hubs themselves, with a body, on the
\* annotated server.js with either router.
ConcStacks == {annotatedServer(apiRouter), annotatedServer(hubsRouter)}
ConcPaths ==
  {[at |-> "hubs", id |-> 0]} \cup {[at |-> "hub", id |-> i] : i \in HubIds}
ConcBodies == {Some([name |-> "b", hub_id |-> MaxHubId])}

InitConc ==
  /\ stack \in ConcStacks
  /\ hubs = [i \in StoreIds |-> IF i = 1 THEN Some([id |-> 1, name |-> "a"])
                              ELSE None]
  /\ nextId = 2
  /\ reqs = [r \in Slots |-> NoRequest]

ArriveConc(r) ==
  /\ reqs[r].st = "idle"
  /\ \E m \in Methods, p \in ConcPaths, b \in ConcBodies :
       /\ (p.at = "hubs") = (m = "POST")
       /\ IdLeft(m, p)
       /\ reqs' = [reqs EXCEPT ![r] = NewRequest(m, p, b, None)]
  /\ UNCHANGED <<stack, hubs, nextId>>

NextConc ==
  \E r \in Slots : ArriveConc(r) \/ Dispatch(r) \/ Settle(r) \/ Finish(r)

SpecConc == InitConc /\ [][NextConc]_vars

\* ------------------------------------------------- the same request, twice
\* A request is run through the stack on slot 1, and when it is over the
\* same request (method, path, body, headers) is run again on slot 2; the
\* stack is the same, the data-access calls of the second run return or fail
\* as they will.
ArriveAgain ==
  /\ reqs[1].st = "done"
  /\ reqs[2].st = "idle"
  /\ IdLeft(reqs[1].method, reqs[1].path)
  /\ reqs' = [reqs EXCEPT ![2] = NewRequest(reqs[1].method, reqs[1].path,
                                            reqs[1].body, reqs[1].xname)]
  /\ UNCHANGED <<stack, hubs, nextId>>

NextTwice ==
  \/ Arrive(1)
  \/ ArriveAgain
  \/ \E r \in {1, 2} : Dispatch(r) \/ Settle(r)

SpecTwice == Init /\ [][NextTwice]_vars

\* =================================================================== claims
\* the handler invoked b-th in the walk of q
HandlerAt(q, b) == stack[q.invoked[b]].h
\* the positions in the walk of q at which handler h was invoked
InvokedAt(q, h) == {b \in 1..Len(q.invoked) : HandlerAt(q, b) = h}
\* the positions in the walk of q whose handler signalled next(err)
FailedAt(q) == {a \in 1..Len(q.signals) : q.signals[a] = "fail"}

\* C1: forward-only rule.  Once the handler at stack index i has signalled
\* next(err), every handler invoked afterwards for that request sits at a
\* strictly larger stack index: the walk never goes back or wraps around.
ForwardOnly ==
  \A r \in Slots :
    LET q == reqs[r]
    IN \A a \in FailedAt(q), b \in 1..Len(q.invoked) :
         a < b => q.invoked[b] > q.invoked[a]

\* a handler failed and a later entry was then invoked
ForwardOnlyWitness ==
  \E r \in Slots :
    \E a \in FailedAt(reqs[r]) : Len(reqs[r].invoked) > a

\* C2: once a handler has written a response, no later handler of the stack
\* is invoked for that request.
NoHandlerAfterResponse ==
  \A r \in Slots :
    LET q == reqs[r]
    IN \A a \in 1..Len(q.signals) :
         q.signals[a] = "respond" => a = Len(q.invoked)

\* a handler responded while matching entries were registered after it
NoHandlerAfterResponseWitness ==
  \E r \in Slots :
    LET q == reqs[r]
    IN /\ q.end = "responded"
       /\ \E j \in (q.cursor + 1)..Len(stack) :
            Matches(stack[j], q) /\ ~stack[j].isErr

\* C3: after a handler has signalled next(err), every handler invoked later
\* for that request is an error handler; the normal handlers in between,
\* the route action after a failing validator among them, are skipped.
OnlyErrorHandlersAfterFail ==
  \A r \in Slots :
    LET q == reqs[r]
    IN \A a \in FailedAt(q), b \in 1..Len(q.invoked) :
         a < b => stack[q.invoked[b]].isErr

\* a validator failed, a matching normal handler after it was skipped and an
\* error handler behind that one ran
OnlyErrorHandlersAfterFailWitness ==
  \E r \in Slots :
    LET q == reqs[r]
    IN \E a \in FailedAt(q) :
         /\ HandlerAt(q, a) \in {"validateId", "requireBody", "hubsValidateId"}
         /\ Len(q.invoked) > a
         /\ \E j \in (q.invoked[a] + 1)..(q.invoked[a + 1] - 1) :
              Matches(stack[j], q) /\ ~stack[j].isErr

\* C4: an error handler is invoked only after some earlier handler of the
\* same walk has signalled next(err); a walk in normal mode skips the error
\* handlers it passes.
ErrorHandlerOnlyAfterFail ==
  \A r \in Slots :
    LET q == reqs[r]
    IN \A b \in 1..Len(q.invoked) :
         stack[q.invoked[b]].isErr => \E a \in FailedAt(q) : a < b

\* a walk without any failure went past a matching error handler
ErrorHandlerOnlyAfterFailWitness ==
  \E r \in Slots :
    LET q == reqs[r]
    IN /\ FailedAt(q) = {}
       /\ \E j \in 1..q.cursor : stack[j].isErr /\ Matches(stack[j], q)
       /\ \A b \in 1..Len(q.invoked) : ~stack[q.invoked[b]].isErr

\* the only error handler of the stack is its first entry
ErrorHandlerFirstOnly ==
  stack[1].isErr /\ \A j \in 2..Len(stack) : ~stack[j].isErr

\* C5: with the only error handler registered first, a next(err) of a later
\* handler never reaches it: it is not invoked, and the walk ends with the
\* default handler's answer to an unhandled error.
EarlyErrorHandlerUnreachable ==
  ErrorHandlerFirstOnly =>
    \A r \in Slots :
      LET q == reqs[r]
      IN /\ \A b \in 1..Len(q.invoked) : q.invoked[b] # 1
         /\ (q.st = "done" /\ FailedAt(q) # {}) =>
              (q.end = "unhandled" /\ Len(q.res) = 1 /\ q.res[1].status = 500)

\* with the error handler first, a later handler failed and the walk ended
\* with the default handler
EarlyErrorHandlerUnreachableWitness ==
  /\ ErrorHandlerFirstOnly
  /\ \E r \in Slots :
       reqs[r].end = "unhandled" /\ FailedAt(reqs[r]) # {}

\* the route actions, i.e. the last handler of each hubs route
RouteActions ==
  { "getHubById", "apiPostHub", "apiDeleteHub", "apiPutHub", "apiGetMessages",
    "apiPostMessage", "hubsGetHub", "hubsPostHub", "hubsDeleteHub",
    "hubsPutHub", "hubsGetMessages", "hubsPostMessage" }
\* the calls of the walk of q that findById answered with no hub
AbsentLookups(q) ==
  {k \in 1..Len(q.rets) :
     q.calls[k].op = "findById" /\ q.rets[k].ok /\ q.rets[k].val = None}
\* the calls of the walk of q to one of the operations ops
CallsTo(q, ops) == {k \in 1..Len(q.calls) : q.calls[k].op \in ops}
\* the stack is the one whose router takes its validators from the controller
ControllerBased == \E j \in DOMAIN stack : stack[j].h = "requireBody"
\* req.body is absent or has no attribute
NoBody(q) == q.body = None \/ Keys(q.body[1]) = {}

\* C6: validation short-circuit.  When findById returns no hub for a request,
\* no route action is executed for it, and none of Hubs.update, Hubs.remove,
\* Hubs.findHubMessages and Messages.add is called.
ValidationShortCircuit ==
  \A r \in Slots :
    LET q == reqs[r]
    IN AbsentLookups(q) # {} =>
         /\ \A b \in 1..Len(q.invoked) : HandlerAt(q, b) \notin RouteActions
         /\ CallsTo(q, {"update", "remove", "findHubMessages",
                        "Messages.add"}) = {}

\* on the controller-based router a lookup found no hub, and the request is
\* over with its route action skipped
ValidationShortCircuitWitness ==
  /\ ControllerBased
  /\ \E r \in Slots :
       LET q == reqs[r]
       IN /\ q.st = "done"
          /\ AbsentLookups(q) # {}
          /\ q.method \in {"PUT", "DELETE", "POST"}
          /\ \E j \in (q.invoked[Min(InvokedAt(q, "validateId"))] + 1)..Len(stack) :
               Matches(stack[j], q) /\ stack[j].h \in RouteActions

\* C7 (as claimed): GET /:id on the controller-based router, findById
\* returning no hub, is answered with status 404 and the message "invalid id".
InvalidIdAnswered404 ==
  \A r \in Slots :
    LET q == reqs[r]
    IN ( /\ ControllerBased
         /\ q.st = "done"
         /\ q.method = "GET" /\ q.path.at = "hub"
         /\ 1 \in AbsentLookups(q) ) =>
         /\ Len(q.res) = 1
         /\ q.res[1].status = 404
         /\ Prop(q.res[1].body, "message") = Some("invalid id")

\* C8: POST / on the controller-based router with the body {} is answered
\* with status 400 and the message "body is required", and Hubs.add is not
\* called.
EmptyBodyPostRejected ==
  \A r \in Slots :
    LET q == reqs[r]
    IN ( /\ ControllerBased
         /\ q.method = "POST" /\ q.path.at = "hubs"
         /\ q.body = Some(EmptyObj) ) =>
         /\ CallsTo(q, {"add"}) = {}
         /\ InvokedAt(q, "apiPostHub") = {}
         /\ q.st = "done" =>
              /\ Len(q.res) = 1
              /\ q.res[1].status = 400
              /\ Prop(q.res[1].body, "message") = Some("body is required")

\* such a request has been answered, by errorHandler after requireBody
EmptyBodyPostRejectedWitness ==
  /\ ControllerBased
  /\ \E r \in Slots :
       LET q == reqs[r]
       IN /\ q.st = "done"
          /\ q.method = "POST" /\ q.path.at = "hubs"
          /\ q.body = Some(EmptyObj)
          /\ InvokedAt(q, "requireBody") # {}
          /\ InvokedAt(q, "errorHandler") # {}

\* C9: POST / with a non-empty body calls Hubs.add exactly once, with the
\* request body; when add succeeds the answer is 201 with exactly the hub
\* that add returned.
PostCreatesHub ==
  \A r \in Slots :
    LET q == reqs[r]
        adds == CallsTo(q, {"add"})
    IN ( /\ q.st = "done"
         /\ q.method = "POST" /\ q.path.at = "hubs"
         /\ ~NoBody(q) ) =>
         /\ Cardinality(adds) = 1
         /\ \A k \in adds :
              /\ q.calls[k].data = q.body[1]
              /\ q.rets[k].ok =>
                   /\ Len(q.res) = 1
                   /\ q.res[1].status = 201
                   /\ q.res[1].body = q.rets[k].val

\* a hub has been added and the request answered, on the controller-based
\* router
PostCreatesHubWitness ==
  /\ ControllerBased
  /\ \E r \in Slots :
       LET q == reqs[r]
       IN /\ q.st = "done"
          /\ q.method = "POST" /\ q.path.at = "hubs"
          /\ \E k \in CallsTo(q, {"add"}) :
               q.rets[k].ok /\ hubs[q.rets[k].val.id] = Some(q.rets[k].val)

\* C10 (as claimed): wherever requireBody has run on a request whose body is
\* absent or has no attribute, the route action is not invoked, none of
\* Hubs.add, Hubs.update and Messages.add is called, and the request ends
\* with status 400.
RequireBodyRejectsEmpty ==
  \A r \in Slots :
    LET q == reqs[r]
    IN ( /\ InvokedAt(q, "requireBody") \cup InvokedAt(q, "hubsRequireBody") # {}
         /\ NoBody(q) ) =>
         /\ \A b \in 1..Len(q.invoked) : HandlerAt(q, b) \notin RouteActions
         /\ CallsTo(q, {"add", "update", "Messages.add"}) = {}
         /\ q.st = "done" => (Len(q.res) = 1 /\ q.res[1].status = 400)

\* the route actions of the routes that validateId guards
GuardedActions == RouteActions \ {"apiPostHub", "hubsPostHub"}
\* the findById calls of the walk of q
Lookups(q) == CallsTo(q, {"findById"})

\* C11: whenever a route action guarded by validateId runs, req.hub is set
\* and is exactly the hub that findById returned for the request's id during
\* this request; GET /:id answers 200 with that hub.
HubAttached ==
  \A r \in Slots :
    LET q == reqs[r]
    IN \A b \in 1..Len(q.invoked) :
         HandlerAt(q, b) \in GuardedActions =>
           /\ q.hub # None
           /\ Lookups(q) # {}
           /\ LET k == Max(Lookups(q))
              IN /\ q.calls[k].id = q.path.id
                 /\ k <= Len(q.rets)
                 /\ q.rets[k].ok
                 /\ q.rets[k].val = q.hub
           /\ (HandlerAt(q, b) \in {"getHubById", "hubsGetHub"} /\ q.st = "done") =>
                /\ Len(q.res) = 1
                /\ q.res[1].status = 200
                /\ q.res[1].body = q.hub[1]

\* GET /:id has been answered by its route action with the stored hub, on
\* the controller-based router
HubAttachedWitness ==
  /\ ControllerBased
  /\ \E r \in Slots :
       LET q == reqs[r]
       IN /\ q.st = "done"
          /\ InvokedAt(q, "getHubById") # {}
          /\ hubs[q.path.id] # None
          /\ q.res[1].body = hubs[q.path.id][1]

\* the calls of the walk of q to findById that failed
FailedLookups(q) ==
  {k \in 1..Len(q.rets) : q.calls[k].op = "findById" /\ ~q.rets[k].ok}
Validators == {"validateId", "hubsValidateId"}
\* the position in the walk of q of the validateId that made the call k: the
\* validators of a route come before its action, each makes one call, so
\* the k-th lookup is that of the k-th validator invoked
ValidatorAt(q, k) ==
  CHOOSE b \in 1..Len(q.invoked) :
    /\ HandlerAt(q, b) \in Validators
    /\ Cardinality({a \in 1..b : HandlerAt(q, a) \in Validators}) = k

\* C12 (as claimed): when the findById lookup of validateId fails, validateId
\* signals next(err) with a payload of status 500, no route action is
\* executed, and the request ends with status 500.
LookupFailureFails ==
  \A r \in Slots :
    LET q == reqs[r]
    IN \A k \in FailedLookups(q) :
         /\ q.signals[ValidatorAt(q, k)] = "fail"
         /\ q.err # None /\ Prop(q.err[1], "status") = Some(500)
         /\ \A b \in 1..Len(q.invoked) : HandlerAt(q, b) \notin RouteActions
         /\ q.st = "done" => (Len(q.res) = 1 /\ q.res[1].status = 500)

\* the last registered error handler of the stack (0: there is none)
TerminalIndex ==
  LET es == {j \in DOMAIN stack : stack[j].isErr}
  IN IF es = {} THEN 0 ELSE Max(es)
\* the status the claim derives from a payload: status, else statusCode,
\* else 400
ClaimedStatus(p) ==
  IF "status" \in DOMAIN p /\ p.status # 0 THEN p.status
  ELSE IF "statusCode" \in DOMAIN p /\ p.statusCode # 0 THEN p.statusCode
  ELSE 400
\* the body carries what the payload carries: the same fields (an Error's
\* message among them), each with the payload's value, a nested error object
\* as an object
Mirrors(body, p) ==
  /\ DOMAIN body = (DOMAIN p) \ {"isError"}
  /\ \A k \in DOMAIN body : k \notin {"error", "err"} => body[k] = p[k]

\* C13 (as claimed): the terminal error handler responds with the payload's
\* status, else its statusCode, else 400, and with a body that mirrors the
\* payload of the next(err) that put the walk into error mode; its response
\* ends the walk.
TerminalErrorHandlerAnswers ==
  \A r \in Slots :
    LET q == reqs[r]
    IN \A b \in 1..Len(q.signals) :
         (q.invoked[b] = TerminalIndex) =>
           /\ q.signals[b] = "respond"
           /\ b = Len(q.invoked)
           /\ q.st = "done" /\ Len(q.res) = 1
           /\ q.res[1].status = ClaimedStatus(q.err[1])
           /\ Mirrors(q.res[1].body, q.err[1])

\* the position in the walk of q of the handler whose data-access call came
\* back last
LastCaller(q) == Max({a \in 1..Len(q.invoked) : HandlerAt(q, a) \in Awaiting})

\* C14 (as claimed): a handler whose data-access call fails signals next(err)
\* with a payload that carries a status and a message, and writes no
\* response itself; of the registered handlers only the terminal error
\* handler ever writes a response with a status of 400 or more.
FailuresAlwaysFail ==
  \A r \in Slots :
    LET q == reqs[r]
    IN /\ (q.rets # <<>> /\ ~Last(q.rets).ok) =>
            /\ q.signals[LastCaller(q)] = "fail"
            /\ q.err # None
            /\ {"status", "message"} \subseteq Keys(q.err[1])
       /\ \A b \in 1..Len(q.signals) :
            (q.signals[b] = "respond" /\ Last(q.res).status >= 400) =>
              q.invoked[b] = TerminalIndex

\* the request is for one of the seven routes of the hubs router
OnHubsRoute(q) ==
  \E j \in DOMAIN stack :
    stack[j].scope = "router" /\ stack[j].pat # "*" /\ Matches(stack[j], q)

\* C15 (as claimed): every response on the seven hub and hub-message routes
\* has a status in {200, 201, 400, 404, 500}, and a successful create, that
\* of a message included, is answered with 201.
HubsRouteStatuses ==
  \A r \in Slots :
    LET q == reqs[r]
    IN (q.st = "done" /\ OnHubsRoute(q)) =>
         /\ Len(q.res) = 1
         /\ q.res[1].status \in {200, 201, 400, 404, 500}
         /\ ( /\ q.method = "POST"
              /\ CallsTo(q, {"add", "Messages.add"}) # {}
              /\ Last(q.rets).ok ) => q.res[1].status = 201

\* the request ended in a failure: a handler signalled next(err), or wrote a
\* response with an error status
EndedInFailure(q) ==
  /\ q.st = "done"
  /\ \/ FailedAt(q) # {}
     \/ (q.end = "responded" /\ Last(q.res).status >= 400)
\* the current error carries no status hint
NoStatusHint(q) ==
  q.err # None /\ Keys(q.err[1]) \cap {"status", "statusCode"} = {}

\* C16 (as claimed): every request that ends in a failure gets a JSON body
\* with a message field and the status of the failure's kind: 500 when a
\* data-access call failed, 404 when the id was not found, 400 when the body
\* is missing; a next(err) whose payload carries no status hint yields 400.
FailuresCarryMessage ==
  \A r \in Slots :
    LET q == reqs[r]
    IN EndedInFailure(q) =>
         /\ Len(q.res) = 1
         /\ "message" \in Keys(q.res[1].body)
         /\ NoStatusHint(q) => q.res[1].status = 400
         /\ (q.rets # <<>> /\ ~Last(q.rets).ok) => q.res[1].status = 500
         /\ (AbsentLookups(q) # {} /\ ~NoStatusHint(q)) => q.res[1].status = 404
         /\ (FailedAt(q) # {} /\ HandlerAt(q, Min(FailedAt(q))) = "requireBody")
              => q.res[1].status = 400

\* the lookups of the walk of q that have returned a hub
FoundLookups(q) ==
  {k \in Lookups(q) : k <= Len(q.rets) /\ q.rets[k].ok /\ q.rets[k].val # None}

\* C17: with requests in flight at once and their steps interleaved, every
\* request's walk state and context are its own.  req.hub is the hub that
\* the request's own validateId looked up last, whatever the other requests
\* attached in between, and that is the hub its route action sees and GET
\* /:id sends; a request is in error mode only when a handler of its own
\* walk signalled next(err); its stack pointer is the entry it invoked last;
\* and its response is the one the last handler of its own walk wrote.
RequestsIsolated ==
  \A r \in Slots :
    LET q == reqs[r]
    IN /\ q.hub = None => FoundLookups(q) = {}
       /\ q.hub # None =>
            /\ FoundLookups(q) # {}
            /\ q.rets[Max(FoundLookups(q))].val = q.hub
            /\ q.calls[Max(FoundLookups(q))].id = q.path.id
       /\ (q.err # None) = (FailedAt(q) # {})
       /\ q.cursor = (IF q.invoked = <<>> THEN 0 ELSE Last(q.invoked))
       /\ q.res # <<>> =>
            /\ q.st = "done" /\ Len(q.res) = 1
            /\ q.end = "responded" => Last(q.signals) = "respond"
            /\ (HandlerAt(q, Len(q.invoked)) \in {"getHubById", "hubsGetHub"}) =>
                 q.res[1].body = q.hub[1]

\* two requests are in flight, one in error mode and one in normal mode, and
\* the hub on the one is not the hub on the other
RequestsIsolatedWitness ==
  \E r, s \in Slots :
    /\ reqs[r].st = "walking" /\ reqs[r].err # None
    /\ reqs[s].st = "walking" /\ reqs[s].err = None /\ reqs[s].hub # None
    /\ reqs[r].hub # None /\ reqs[r].hub # reqs[s].hub

\* the data-access calls made by the handlers invoked before position b of
\* the walk of q
CallsBefore(q, b) == Cardinality({a \in 1..(b - 1) : HandlerAt(q, a) \in Awaiting})

\* C18: the walk does not go past a handler that has not signalled.  At most
\* the handler invoked last is without its signal, and only while it is at
\* its data-access call; when a route action behind validateId starts, every
\* lookup of the handlers before it has returned; and a response is written
\* only when every data-access call of the walk has returned.
SignalBeforeAdvance ==
  \A r \in Slots :
    LET q == reqs[r]
    IN /\ Len(q.invoked) - Len(q.signals) = (IF q.st = "awaiting" THEN 1 ELSE 0)
       /\ Len(q.calls) - Len(q.rets) = (IF q.st = "awaiting" THEN 1 ELSE 0)
       /\ \A b \in 1..Len(q.invoked) :
            HandlerAt(q, b) \in GuardedActions =>
              /\ CallsBefore(q, b) >= 1
              /\ Len(q.rets) >= CallsBefore(q, b)
              /\ \A a \in 1..(b - 1) : a <= Len(q.signals) /\ q.signals[a] = "next"
       /\ q.res # <<>> => Len(q.rets) = Len(q.calls)

\* PUT /:id has been answered by its route action: the lookup of validateId
\* and then the update have both returned
SignalBeforeAdvanceWitness ==
  /\ ControllerBased
  /\ \E r \in Slots :
       LET q == reqs[r]
       IN /\ q.st = "done"
          /\ HandlerAt(q, Len(q.invoked)) = "apiPutHub"
          /\ Len(q.rets) = 2
          /\ q.calls[1].op = "findById" /\ q.calls[2].op = "update"

\* the data-access calls of the two walks were the same and returned the same
SameReturns(p, q) ==
  /\ Len(p.rets) = Len(q.rets)
  /\ Len(p.calls) = Len(q.calls)
  /\ \A k \in 1..Len(p.rets) :
       /\ p.calls[k].op = q.calls[k].op
       /\ p.rets[k].ok = q.rets[k].ok
       /\ p.rets[k].val = q.rets[k].val
\* the two walks invoked the same handlers in the same order and ended with
\* the same status and body
SameOutcome(p, q) ==
  /\ p.invoked = q.invoked
  /\ p.end = q.end
  /\ Len(p.res) = Len(q.res)
  /\ \A k \in 1..Len(p.res) :
       /\ p.res[k].status = q.res[k].status
       /\ DOMAIN p.res[k].body = DOMAIN q.res[k].body
       /\ \A f \in DOMAIN p.res[k].body : p.res[k].body[f] = q.res[k].body[f]
\* both runs of the request are over
RanTwice == reqs[1].st = "done" /\ reqs[2].st = "done"
\* the stack registers the time gate
HasTimeGate == \E j \in DOMAIN stack : stack[j].h = "time"

\* C19 (as claimed): on every server variant, the one with the time gate
\* included, the same request run twice through the same stack, the
\* data-access calls returning the same, invokes the same handlers in the
\* same order and ends with the same status and body.
Deterministic ==
  (RanTwice /\ SameReturns(reqs[1], reqs[2])) => SameOutcome(reqs[1], reqs[2])

\* C19 (amended): the same holds on every server variant without the time
\* gate, and on the variant with it for the requests to the seven routes of
\* the hubs router, which are answered before the gate.
DeterministicBeforeTimeGate ==
  ( /\ RanTwice
    /\ SameReturns(reqs[1], reqs[2])
    /\ HasTimeGate => OnHubsRoute(reqs[1]) ) => SameOutcome(reqs[1], reqs[2])

\* on the variant with the time gate, a request to the hubs router has been
\* run twice, with its lookup returning the same hub both times
DeterministicBeforeTimeGateWitness ==
  /\ HasTimeGate
  /\ RanTwice
  /\ OnHubsRoute(reqs[1])
  /\ reqs[1].rets # <<>>
  /\ SameReturns(reqs[1], reqs[2])
  /\ reqs[2].hub # None

\* C20: handlers registered in one call for a method and path, as separate
\* arguments or as an array, are walked as the same handlers registered one
\* by one, consecutively, at that method and path.  At every point of every
\* walk the entry that the walk over routes goes to next is the one that the
\* walk over single entries goes to, so the two invoke the same handlers in
\* the same order and end the same way.
CompositeAsConsecutive ==
  \A r \in Slots :
    LET q == reqs[r]
    IN q.st = "walking" => NextLayerComposite(stack, q) = NextLayer(stack, q)

\* PUT /:id, registered with the array [validateId, requireBody] and the
\* route action, has run all three
CompositeAsConsecutiveWitness ==
  \E r \in Slots :
    LET q == reqs[r]
    IN /\ q.st = "done"
       /\ InvokedAt(q, "hubsValidateId") # {}
       /\ InvokedAt(q, "hubsRequireBody") # {}
       /\ InvokedAt(q, "hubsPutHub") # {}

\* the invocations of the walk of q that ended with a response
RespondedAt(q) == {a \in 1..Len(q.signals) : q.signals[a] = "respond"}

\* C21: every invocation of a handler does at most one of: write a response,
\* call next(), call next(err).  No invocation has more than one signal on
\* record, and every response on record was written by an invocation that
\* signalled nothing else (or by the default handler at the end of the
\* stack), on the data-access failure path as on every other.
AtMostOneSignal ==
  \A r \in Slots :
    LET q == reqs[r]
    IN /\ Len(q.signals) <= Len(q.invoked)
       /\ \A a \in 1..Len(q.signals) : q.signals[a] \in {"next", "fail", "respond"}
       /\ Len(q.res) = Cardinality(RespondedAt(q))
                         + (IF q.end \in {"notFound", "unhandled"} THEN 1 ELSE 0)

\* a walk is over in which a handler's data-access call failed and
\* hubsRequireBody or requireBody had its say
AtMostOneSignalWitness ==
  \E r \in Slots :
    LET q == reqs[r]
    IN /\ q.st = "done"
       /\ q.rets # <<>> /\ ~Last(q.rets).ok
       /\ InvokedAt(q, "hubsRequireBody") \cup InvokedAt(q, "requireBody") # {}
       /\ Len(q.signals) = Len(q.invoked)

\* C22: no request falls off the end of the stack without a response.  Every
\* handler invoked responds or signals, so that, the data-access calls
\* eventually returning or failing, every request that came in is eventually
\* over with a response written; a walk that exhausts the stack in normal
\* mode is answered by the default handler with 404, not left unanswered.
EveryRequestAnswered ==
  /\ [](\A r \in Slots :
          /\ reqs[r].st # "hung"
          /\ reqs[r].st = "done" => Len(reqs[r].res) = 1
          /\ reqs[r].end = "notFound" =>
               (reqs[r].err = None /\ reqs[r].res[1].status = 404))
  /\ (reqs[1].st \in {"walking", "awaiting"})
       ~> (reqs[1].st = "done" /\ Len(reqs[1].res) = 1)

\* a walk went through the whole stack in normal mode, requireBody among its
\* handlers or not, and the default handler answered
EveryRequestAnsweredWitness ==
  \E r \in Slots :
    LET q == reqs[r]
    IN /\ q.st = "done"
       /\ q.end = "notFound"
       /\ Len(q.invoked) > 1
       /\ \A a \in 1..Len(q.signals) : q.signals[a] = "next"

\* the welcome page of GET / for the name nm
WelcomePage(nm) ==
  "<h2>Lambda Hubs API</h2><p>Welcome " \o nm \o " to the Lambda Hubs API</p>"
\* addName, in either server variant that registers it, has run in the walk
\* of q
AddNameRan(q) ==
  \E b \in InvokedAt(q, "addName") \cup InvokedAt(q, "headerAddName") :
    b <= Len(q.signals)

\* C23 (as claimed): in each server variant that registers addName, once
\* addName has run the request's name is set, and the GET / handler that
\* runs later sends the welcome page with that name.
NameObservedDownstream ==
  \A r \in Slots :
    LET q == reqs[r]
    IN AddNameRan(q) =>
         /\ TruthyStr(q.name)
         /\ (q.st = "done" /\ InvokedAt(q, "getRoot") # {}) =>
              q.res[1].body = [html |-> WelcomePage(q.name[1])]

ErrorModeIsFinal ==
  [][\A r \in Slots :
       (reqs[r].err # None /\ reqs'[r].st # "idle") =>
         /\ reqs'[r].err # None
         /\ reqs'[r].cursor # reqs[r].cursor => stack[reqs'[r].cursor].isErr]_vars

\* a walk in error mode has invoked an error handler and is over, still in
\* error mode
ErrorModeIsFinalWitness ==
  \E r \in Slots :
    LET q == reqs[r]
    IN /\ q.st = "done"
       /\ q.err # None
       /\ q.cursor > 0 /\ stack[q.cursor].isErr
       /\ \E j \in 1..(q.cursor - 1) : Matches(stack[j], q) /\ ~stack[j].isErr

BodyValidators == {"requireBody", "hubsRequireBody"}
\* the positions in the walk of q at which one of the handlers hs was invoked
InvokedAmong(q, hs) == {b \in 1..Len(q.invoked) : HandlerAt(q, b) \in hs}
\* the request is a PUT /:id or a POST /:id/messages, on a router that
\* registers requireBody on these routes
BothValidatorsRoute(q) ==
  /\ \/ (q.method = "PUT" /\ q.path.at = "hub")
     \/ (q.method = "POST" /\ q.path.at = "msgs")
  /\ \E j \in DOMAIN stack : stack[j].h \in BodyValidators /\ Matches(stack[j], q)

\* C26: on PUT /:id and POST /:id/messages the handlers run in the order
\* validateId, requireBody, route action.  requireBody is invoked only after
\* validateId has called next(), and the route action only after both have;
\* when the id is unknown the walk fails at validateId, with its payload,
\* and neither requireBody nor the route action is invoked, whatever the
\* body.
ValidatorsInOrder ==
  \A r \in Slots :
    LET q == reqs[r]
        V == InvokedAmong(q, Validators)
        B == InvokedAmong(q, BodyValidators)
        A == InvokedAmong(q, RouteActions)
    IN BothValidatorsRoute(q) =>
         /\ \A b \in B : \E v \in V : v < b /\ q.signals[v] = "next"
         /\ \A a \in A : \E b \in B : b < a /\ q.signals[b] = "next"
         /\ AbsentLookups(q) # {} =>
              /\ B = {} /\ A = {}
              /\ FailedAt(q) # {}
              /\ HandlerAt(q, Min(FailedAt(q))) \in Validators
              /\ q.err # None
              /\ q.err[1].message \in {"invalid id", "does not exist"}

\* a PUT or POST for an unknown id with an empty body is over
ValidatorsInOrderWitness ==
  \E r \in Slots :
    LET q == reqs[r]
    IN /\ BothValidatorsRoute(q)
       /\ q.st = "done"
       /\ NoBody(q)
       /\ AbsentLookups(q) # {}

\* the calls to Hubs.update of the walk of q that have returned
UpdatesReturned(q) ==
  {k \in CallsTo(q, {"update"}) : k <= Len(q.rets) /\ q.rets[k].ok}

\* C27 (as claimed): PUT /:id answers 200 only when Hubs.update returned a
\* hub, with that hub as the body; when update returns no hub, as after a
\* DELETE of another request between validateId's lookup and the update, the
\* answer is 404.
UpdateAnswered ==
  \A r \in Slots :
    LET q == reqs[r]
    IN (q.st = "done" /\ q.method = "PUT" /\ q.path.at = "hub") =>
         /\ Len(q.res) = 1
         /\ q.res[1].status = 200 => UpdatesReturned(q) # {}
         /\ \A k \in UpdatesReturned(q) :
              IF q.rets[k].val = None
              THEN q.res[1].status = 404
              ELSE q.res[1].status = 200 /\ q.res[1].body = q.rets[k].val[1]

\* the calls to Hubs.remove of the walk of q that removed at least one hub
Removals(q) ==
  {k \in CallsTo(q, {"remove"}) :
     k <= Len(q.rets) /\ q.rets[k].ok /\ q.rets[k].val >= 1}
\* q is a DELETE /:id that was answered 200
ReportsRemoval(q) ==
  /\ q.st = "done" /\ q.method = "DELETE" /\ q.path.at = "hub"
  /\ Len(q.res) >= 1 /\ q.res[1].status = 200

\* C28 (as claimed): DELETE /:id answers 200 only when Hubs.remove removed at
\* least one hub, and of two DELETE requests for the same id that are in
\* flight together at most one is answered 200.
RemovalReported ==
  /\ \A r \in Slots : ReportsRemoval(reqs[r]) => Removals(reqs[r]) # {}
  /\ \A r, s \in Slots :
       (r # s /\ reqs[r].path.id = reqs[s].path.id /\ ReportsRemoval(reqs[r]))
         => ~ReportsRemoval(reqs[s])

\* the calls to Messages.add of the walk of q
MessageAdds(q) == CallsTo(q, {"Messages.add"})

\* C29: on POST /:id/messages the payload passed to Messages.add has hub_id
\* equal to the id of the request's path, also when the body supplies
\* another hub_id; every other attribute of the body is passed unchanged;
\* and a lookup of that id has found a hub earlier in the same request.
MessagePayloadHubId ==
  \A r \in Slots :
    LET q == reqs[r]
    IN \A k \in MessageAdds(q) :
         LET payload == q.calls[k].data
         IN /\ q.method = "POST" /\ q.path.at = "msgs"
            /\ Prop(payload, "hub_id") = Some(q.path.id)
            /\ Keys(payload) = Keys(BodyObj(q)) \cup {"hub_id"}
            /\ \A a \in Keys(BodyObj(q)) \ {"hub_id"} :
                 payload[a] = BodyObj(q)[a]
            /\ \E j \in FoundLookups(q) :
                 j < k /\ q.calls[j].id = q.path.id
\* a message is added for hub 1 though the body names another hub
MessagePayloadHubIdWitness ==
  \E r \in Slots :
    LET q == reqs[r]
    IN /\ MessageAdds(q) # {}
       /\ Prop(BodyObj(q), "hub_id") # None
       /\ Prop(BodyObj(q), "hub_id") # Some(q.path.id)
       /\ Prop(BodyObj(q), "name") = Some("b")
       /\ q.st = "done" /\ q.res[1].status = 210

\* C30 (as claimed): on the controller-based router validateId is invoked at
\* most once and Hubs.findById is called at most once for every request, and
\* a GET /:id that is answered with the hub has made exactly one lookup.
ValidatedOnce ==
  ControllerBased =>
    \A r \in Slots :
      LET q == reqs[r]
      IN /\ Cardinality(InvokedAt(q, "validateId")) <= 1
         /\ Cardinality(Lookups(q)) <= 1
         /\ (q.st = "done" /\ InvokedAt(q, "getHubById") # {}) =>
              Cardinality(Lookups(q)) = 1

\* the stack registers lockout with use() before the root routes
HasLockout ==
  \E j \in DOMAIN stack :
    /\ stack[j].h = "lockout"
    /\ \A i \in DOMAIN stack : stack[i].h \in {"getRoot", "deleteRoot"} => j < i
\* the request was answered by a handler of the hubs router
AnsweredByRouter(q) ==
  /\ q.st = "done" /\ q.end = "responded"
  /\ stack[Last(q.invoked)].scope = "router"

\* C31: in the server variant that registers time and lockout before the
\* root routes, lockout answers every request that reaches it with 403 and
\* never continues, the GET / and DELETE / handlers behind it are never
\* invoked, and a request answered by the hubs router has passed neither gate.
LockoutShadowsRoot ==
  (HasLockout /\ HasTimeGate) =>
    \A r \in Slots :
      LET q == reqs[r]
      IN /\ \A b \in InvokedAt(q, "lockout") :
              /\ b = Len(q.invoked)
              /\ q.st = "done" /\ q.end = "responded"
              /\ q.signals[b] = "respond"
              /\ q.res = <<[status |-> 403,
                            body |-> [message |-> "api in maintenance mode"]]>>
         /\ InvokedAt(q, "getRoot") = {}
         /\ InvokedAt(q, "deleteRoot") = {}
         /\ AnsweredByRouter(q) =>
              InvokedAmong(q, {"time", "lockout"}) = {}
\* GET / passed the time gate and was answered 403 by lockout
LockoutShadowsRootWitness ==
  /\ HasLockout /\ HasTimeGate
  /\ \E r \in Slots :
       LET q == reqs[r]
       IN /\ q.method = "GET" /\ q.path.at = "root"
          /\ InvokedAt(q, "time") # {}
          /\ InvokedAt(q, "lockout") # {}
          /\ q.st = "done" /\ q.res[1].status = 403

\* the stack registers methodLogger
HasMethodLogger == \E j \in DOMAIN stack : stack[j].h = "methodLogger"
\* methodLogger is registered behind the hubs router
LoggerBehindRouter ==
  \E i, j \in DOMAIN stack :
    i < j /\ stack[i].scope = "router" /\ stack[j].h = "methodLogger"
\* the positions in the walk of q at which a route handler of the hubs router
\* (registered with METHOD(), not with use()) was invoked
RouterRouteHandlers(q) ==
  {b \in 1..Len(q.invoked) :
     stack[q.invoked[b]].scope = "router" /\ stack[q.invoked[b]].pat # "*"}

\* C32 (as claimed): on every server variant that registers methodLogger, the
\* one that mounts the hubs router before it included, methodLogger is
\* invoked exactly once for every request, and before any route handler of
\* the hubs router runs for the request.
RequestLogged ==
  HasMethodLogger =>
    \A r \in Slots :
      LET q == reqs[r]
      IN /\ Cardinality(InvokedAt(q, "methodLogger")) <= 1
         /\ q.st = "done" => Cardinality(InvokedAt(q, "methodLogger")) = 1
         /\ \A b \in RouterRouteHandlers(q) :
              \E a \in InvokedAt(q, "methodLogger") : a < b

\* the positions in the walk of q at which an entry of the hubs router was
\* invoked
RouterHandlers(q) ==
  {b \in 1..Len(q.invoked) : stack[q.invoked[b]].scope = "router"}

\* C33: the handlers registered on the hubs router are invoked only for
\* requests whose path lies under the mount point /api/hubs; the middleware
\* at the top of the router's stack runs once for every such request, before
\* any route handler of the router, and for no request outside the mount
\* point.
RouterScopedToMount ==
  \A r \in Slots :
    LET q == reqs[r]
    IN /\ RouterHandlers(q) # {} => UnderMount(q.path)
       /\ ~UnderMount(q.path) => InvokedAt(q, "hubsLogger") = {}
       /\ Cardinality(InvokedAt(q, "hubsLogger")) <= 1
       /\ (UnderMount(q.path) /\ q.st = "done") =>
            Cardinality(InvokedAt(q, "hubsLogger")) = 1
       /\ \A b \in RouterRouteHandlers(q) :
            \E a \in InvokedAt(q, "hubsLogger") : a < b
\* a request under the mount point was answered by a route handler of the
\* router, the router's middleware having run before it
RouterScopedToMountWitness ==
  \E r \in Slots :
    LET q == reqs[r]
    IN /\ UnderMount(q.path) /\ q.st = "done" /\ q.end = "responded"
       /\ RouterRouteHandlers(q) # {}
       /\ InvokedAt(q, "hubsLogger") # {}

\* C34: at most one response is written per request.  In every state of every
\* walk, whatever the data-access calls return (a hub, no hub, a failure), no
\* response has been written while the walk is running and exactly one once
\* it has ended.
OneResponsePerRequest ==
  \A r \in Slots :
    LET q == reqs[r]
    IN /\ Len(q.res) <= 1
       /\ q.st \in {"idle", "walking", "awaiting"} => Len(q.res) = 0
       /\ q.st = "done" => Len(q.res) = 1
       /\ q.st \in {"idle", "walking", "awaiting", "done"}
\* a walk has ended behind a validateId whose lookup returned no hub, the
\* error handler having written the one response
OneResponsePerRequestWitness ==
  \E r \in Slots :
    LET q == reqs[r]
    IN /\ q.st = "done" /\ Len(q.res) = 1
       /\ AbsentLookups(q) # {}
       /\ InvokedAt(q, "errorHandler") # {}
       /\ InvokedAt(q, "hubsValidateId") # {}
====
